---- MODULE Spec2Model ----
(***************************************************************************)
(* A model of pystac/serialization/identify.py: the orderable version      *)
(* token STACVersionID, the narrowing interval STACVersionRange, and the   *)
(* inference function identify_stac_object.                                *)
(*                                                                         *)
(* Python strings are modelled as sequences of character codes (ASCII), so *)
(* that split('-'), startswith, endswith and the lexicographic order of    *)
(* str are computed, not assumed.                                          *)
(***************************************************************************)
EXTENDS Integers, Sequences, FiniteSets, TLC

VARIABLES
  version_range,  \* SpecRange: the STACVersionRange object under mutation
  start_range,    \* SpecRange: the range the object was constructed with
  history,        \* SpecRange: the mutator calls made so far, in call order
  va, vb, vc,     \* SpecOrder: three version strings
  cmp,            \* SpecOrder: results of the comparisons, or Idle
  json_dict,      \* SpecIdentify: the document passed to identify_stac_object
  description     \* SpecIdentify: the returned STACJSONDescription, or Idle

vars == <<version_range, start_range, history, va, vb, vc, cmp, json_dict, description>>

\* Value of a variable that the specification at hand does not use.
Idle == [state |-> "idle"]

----------------------------------------------------------------------------
(* Python str *)

\* Python's None.
None == [none |-> TRUE]

\* A str object in a place that can also hold None, a list or a STACVersionID: the
\* prerelease of a version, a 'stac_version' value, the arguments of the comparisons
\* and of the methods of STACVersionRange, and the bounds a STACVersionRange holds.
Str(s) == [str |-> s]

\* A list object in a place that can also hold None: a 'stac_extensions' value.
List(elements) == [list |-> elements]

\* type(x) is str, isinstance(x, str)
IsStr(x) == "str" \in DOMAIN x

\* x is None
IsNone(x) == x = None

\* dict.get(key), dict.get(key, None)
Get(d, key) == IF key \in DOMAIN d THEN d[key] ELSE None

\* '-'
HYPHEN == 45

\* str.__lt__: lexicographic order by code point; a proper prefix is smaller.
RECURSIVE StrLt(_, _)
StrLt(s, t) ==
  IF t = <<>> THEN FALSE
  ELSE IF s = <<>> THEN TRUE
  ELSE IF Head(s) < Head(t) THEN TRUE
  ELSE IF Head(s) > Head(t) THEN FALSE
  ELSE StrLt(Tail(s), Tail(t))

\* str.startswith
StartsWith(s, prefix) ==
  /\ Len(prefix) <= Len(s)
  /\ SubSeq(s, 1, Len(prefix)) = prefix

\* str.endswith
EndsWith(s, suffix) ==
  /\ Len(suffix) <= Len(s)
  /\ SubSeq(s, Len(s) - Len(suffix) + 1, Len(s)) = suffix

\* ch in s
Contains(s, ch) == \E i \in 1..Len(s) : s[i] = ch

\* str.split(sep) for a one-character separator: always at least one part.
RECURSIVE Split(_, _)
Split(s, sep) ==
  IF \A i \in 1..Len(s) : s[i] # sep THEN <<s>>
  ELSE LET i == CHOOSE k \in 1..Len(s) : s[k] = sep /\ \A j \in 1..(k-1) : s[j] # sep
       IN <<SubSeq(s, 1, i - 1)>> \o Split(SubSeq(s, i + 1, Len(s)), sep)

\* sep.join(parts)
RECURSIVE Join(_, _)
Join(parts, sep) ==
  IF parts = <<>> THEN <<>>
  ELSE IF Len(parts) = 1 THEN parts[1]
  ELSE parts[1] \o <<sep>> \o Join(Tail(parts), sep)

----------------------------------------------------------------------------
(* class STACVersionID *)

\* __init__
STACVersionID(version_string) ==
  LET version_parts == Split(version_string, HYPHEN)
  IN [version_string |-> version_string,
      version_core |-> version_parts[1],
      version_prerelease |-> IF Len(version_parts) = 1 THEN None
                             ELSE Str(Join(Tail(version_parts), HYPHEN))]

\* "if type(other) is str: other = STACVersionID(other)"
Coerce(other) == IF IsStr(other) THEN STACVersionID(other.str) ELSE other

\* __str__, and str(x) of a str
ToStr(x) == IF IsStr(x) THEN x.str ELSE x.version_string

\* __eq__
STACVersionID_eq(self, other) == self.version_string = Coerce(other).version_string

\* __ne__
STACVersionID_ne(self, other) == ~STACVersionID_eq(self, other)

\* A slip of __lt__: the test that self carries a prerelease is dropped.
STACVersionID_lt_no_self_test(self, other) ==
  LET o == Coerce(other)
  IN IF StrLt(self.version_core, o.version_core) THEN TRUE
     ELSE IF StrLt(o.version_core, self.version_core) THEN FALSE
     ELSE \/ o.version_prerelease = None
          \/ /\ self.version_prerelease # None
             /\ StrLt(self.version_prerelease.str, o.version_prerelease.str)

\* __lt__
STACVersionID_lt(self, other) ==
  LET o == Coerce(other)
  IN IF StrLt(self.version_core, o.version_core) THEN TRUE
     ELSE IF StrLt(o.version_core, self.version_core) THEN FALSE
     ELSE /\ self.version_prerelease # None
          /\ \/ o.version_prerelease = None
             \/ StrLt(self.version_prerelease.str, o.version_prerelease.str)

\* functools.total_ordering derives the other three from __lt__ and __eq__.
STACVersionID_le(self, other) == STACVersionID_lt(self, other) \/ STACVersionID_eq(self, other)
STACVersionID_gt(self, other) == ~STACVersionID_lt(self, other) /\ STACVersionID_ne(self, other)
STACVersionID_ge(self, other) == ~STACVersionID_lt(self, other)

\* a < b, a <= b and a >= b as Python evaluates them on operands that are each a str or
\* a STACVersionID: the method of a STACVersionID left operand; the plain string order
\* when both are str; and, for a str on the left of a STACVersionID, the reflected
\* method of the right operand (str returns NotImplemented).
Py_lt(a, b) ==
  IF ~IsStr(a) THEN STACVersionID_lt(a, b)
  ELSE IF IsStr(b) THEN StrLt(a.str, b.str)
  ELSE STACVersionID_gt(b, a)

Py_le(a, b) ==
  IF ~IsStr(a) THEN STACVersionID_le(a, b)
  ELSE IF IsStr(b) THEN ~StrLt(b.str, a.str)
  ELSE STACVersionID_ge(b, a)

Py_ge(a, b) ==
  IF ~IsStr(a) THEN STACVersionID_ge(a, b)
  ELSE IF IsStr(b) THEN ~StrLt(a.str, b.str)
  ELSE STACVersionID_le(b, a)

----------------------------------------------------------------------------
(* Version strings named in the source, and a few more used as inputs *)

\* '0.3.0'
V_0_3_0 == <<48, 46, 51, 46, 48>>
\* '0.4.0'
V_0_4_0 == <<48, 46, 52, 46, 48>>
\* '0.4.1'
V_0_4_1 == <<48, 46, 52, 46, 49>>
\* '0.5.2'
V_0_5_2 == <<48, 46, 53, 46, 50>>
\* '0.6.0'
V_0_6_0 == <<48, 46, 54, 46, 48>>
\* '0.6.1'
V_0_6_1 == <<48, 46, 54, 46, 49>>
\* '0.6.2'
V_0_6_2 == <<48, 46, 54, 46, 50>>
\* '0.7.0'
V_0_7_0 == <<48, 46, 55, 46, 48>>
\* '0.8.0'
V_0_8_0 == <<48, 46, 56, 46, 48>>
\* '0.8.1'
V_0_8_1 == <<48, 46, 56, 46, 49>>
\* '0.9.0'
V_0_9_0 == <<48, 46, 57, 46, 48>>
\* '1.0.0-beta.1'
V_1_0_0_beta_1 == <<49, 46, 48, 46, 48, 45, 98, 101, 116, 97, 46, 49>>
\* '1.0.0-beta.2'
V_1_0_0_beta_2 == <<49, 46, 48, 46, 48, 45, 98, 101, 116, 97, 46, 50>>
\* '1.0.0'
V_1_0_0 == <<49, 46, 48, 46, 48>>
\* '1.1.0'
V_1_1_0 == <<49, 46, 49, 46, 48>>

\* pystac.version.STACVersion.DEFAULT_STAC_VERSION
DEFAULT_STAC_VERSION == V_1_0_0_beta_2

----------------------------------------------------------------------------
(* class STACVersionRange *)

\* __init__ with both arguments given: a str argument is made a STACVersionID
STACVersionRange(min_version, max_version) ==
  [min_version |-> Coerce(min_version),
   max_version |-> Coerce(max_version)]

\* __init__ with the defaults: min_version='0.4.0', max_version=None
DefaultSTACVersionRange == STACVersionRange(Str(V_0_4_0), Str(DEFAULT_STAC_VERSION))

\* A slip of set_min: the clamp at max_version is dropped.
set_min_no_clamp(self, v) ==
  IF Py_lt(self.min_version, v)
  THEN [self EXCEPT !.min_version = v]
  ELSE self

\* A slip of set_min: the test that v is above min_version is dropped.
set_min_no_guard(self, v) ==
  IF Py_lt(v, self.max_version)
  THEN [self EXCEPT !.min_version = v]
  ELSE [self EXCEPT !.min_version = self.max_version]

\* set_min: v is stored as it was passed, str or STACVersionID
set_min(self, v) ==
  IF Py_lt(self.min_version, v)
  THEN IF Py_lt(v, self.max_version)
       THEN [self EXCEPT !.min_version = v]
       ELSE [self EXCEPT !.min_version = self.max_version]
  ELSE self

\* A slip of set_max: the test that v is below max_version is dropped.
set_max_no_guard(self, v) ==
  IF Py_lt(self.min_version, v)
  THEN [self EXCEPT !.max_version = v]
  ELSE [self EXCEPT !.max_version = self.min_version]

\* set_max: v is stored as it was passed, str or STACVersionID
set_max(self, v) ==
  IF Py_lt(v, self.max_version)
  THEN IF Py_lt(self.min_version, v)
       THEN [self EXCEPT !.max_version = v]
       ELSE [self EXCEPT !.max_version = self.min_version]
  ELSE self

\* A slip of set_to_single: only the minimum is set.
set_to_single_min_only(self, v) == set_min(self, v)

\* set_to_single: set_min, then set_max on the result
set_to_single(self, v) == set_max(set_min(self, v), v)

\* latest_valid_version
latest_valid_version(self) == self.max_version

\* contains: a str argument is made a STACVersionID; the bounds are taken as they are
contains(self, v) ==
  /\ Py_le(self.min_version, Coerce(v))
  /\ Py_le(Coerce(v), self.max_version)

\* is_single_version
is_single_version(self) == Py_ge(self.min_version, self.max_version)

\* is_earlier_than
is_earlier_than(self, v) == Py_lt(self.max_version, Coerce(v))

\* is_later_than
is_later_than(self, v) == Py_lt(Coerce(v), self.min_version)

----------------
(* SpecRange: a STACVersionRange object under arbitrary mutator calls *)

\* The number of mutator calls made on one object.
MaxCalls == 3

\* The versions the constructor and the mutators are called with.
RangeVersions == {STACVersionID(s) : s \in {V_0_4_0, V_1_0_0_beta_2, V_1_0_0}}

\* The versions set_to_single is also called with as a str, as line 322 does.
RangeStrings == {Str(s) : s \in {V_0_6_2, V_1_0_0_beta_1}}

InitRange ==
  /\ start_range \in {STACVersionRange(b[1], b[2]) :
                        b \in {c \in RangeVersions \X RangeVersions :
                                 STACVersionID_le(c[1], c[2])}}
  /\ version_range = start_range
  /\ history = <<>>
  /\ va = Idle /\ vb = Idle /\ vc = Idle /\ cmp = Idle
  /\ json_dict = Idle /\ description = Idle

SetMin(v) ==
  /\ Len(history) < MaxCalls
  /\ version_range' = set_min(version_range, v)
  /\ history' = Append(history, [op |-> "set_min", v |-> v])
  /\ UNCHANGED <<start_range, va, vb, vc, cmp, json_dict, description>>

SetMax(v) ==
  /\ Len(history) < MaxCalls
  /\ version_range' = set_max(version_range, v)
  /\ history' = Append(history, [op |-> "set_max", v |-> v])
  /\ UNCHANGED <<start_range, va, vb, vc, cmp, json_dict, description>>

SetToSingle(v) ==
  /\ Len(history) < MaxCalls
  /\ version_range' = set_to_single(version_range, v)
  /\ history' = Append(history, [op |-> "set_to_single", v |-> v])
  /\ UNCHANGED <<start_range, va, vb, vc, cmp, json_dict, description>>

NextRange ==
  \/ \E v \in RangeVersions : SetMin(v)
  \/ \E v \in RangeVersions : SetMax(v)
  \/ \E v \in RangeVersions \cup RangeStrings : SetToSingle(v)

SpecRange == InitRange /\ [][NextRange]_vars

\* One recorded call applied to a range.
ApplyCall(r, call) ==
  IF call.op = "set_min" THEN set_min(r, call.v)
  ELSE IF call.op = "set_max" THEN set_max(r, call.v)
  ELSE set_to_single(r, call.v)

\* The recorded calls applied to r in the order p (a permutation of their indices).
RECURSIVE ApplyInOrder(_, _, _)
ApplyInOrder(r, calls, p) ==
  IF p = <<>> THEN r
  ELSE ApplyInOrder(ApplyCall(r, calls[Head(p)]), calls, Tail(p))

\* The orders in which n calls can be made: the permutations of 1..n.
OrdersOf == [n \in 0..(MaxCalls + 1) |->
               {p \in [1..n -> 1..n] : \A i, j \in 1..n : p[i] = p[j] => i = j}]
Orders(n) == OrdersOf[n]

OnlyMinMax == \A i \in 1..Len(history) : history[i].op \in {"set_min", "set_max"}

\* No requested minimum is above a requested maximum.
NoConflict ==
  \A i, j \in 1..Len(history) :
    (history[i].op = "set_min" /\ history[j].op = "set_max")
      => Py_le(history[i].v, history[j].v)

\* C1: after every call of set_min, set_max or set_to_single on a range that started
\* with min_version <= max_version, min_version <= max_version still holds.
C1_MinLeMax ==
  /\ Py_le(version_range.min_version, version_range.max_version)
  /\ STACVersionID_le(Coerce(version_range.min_version), version_range.max_version)

\* C1 witness: a set_min above the current maximum was made and was clamped.
C1_Witness ==
  /\ history # <<>>
  /\ history[Len(history)].op = "set_min"
  /\ Py_lt(start_range.max_version, history[Len(history)].v)
  /\ Py_lt(start_range.min_version, start_range.max_version)
  /\ version_range.min_version = version_range.max_version

\* C2 as stated: any order of the same set_min/set_max calls gives the same range.
C2_Original ==
  OnlyMinMax =>
    \A p \in Orders(Len(history)) :
      ApplyInOrder(start_range, history, p) = version_range

\* C2 amended: any order of the same set_min/set_max calls gives the same range,
\* provided no requested minimum is above a requested maximum.
C2_Commutative ==
  (OnlyMinMax /\ NoConflict) =>
    \A p \in Orders(Len(history)) :
      ApplyInOrder(start_range, history, p) = version_range

\* C2 witness: a set_min and a set_max that both moved a bound were made.
C2_Witness ==
  /\ OnlyMinMax /\ NoConflict
  /\ Len(history) >= 2
  /\ \E i, j \in 1..Len(history) : history[i].op = "set_min" /\ history[j].op = "set_max"
  /\ version_range.min_version # start_range.min_version
  /\ version_range.max_version # start_range.max_version

\* C3: every call of set_min, set_max or set_to_single leaves min_version where it was
\* or higher and max_version where it was or lower, so the range stays inside the
\* range it started from.
C3_Narrowing ==
  /\ [][ /\ Py_ge(version_range'.min_version, version_range.min_version)
         /\ Py_le(version_range'.max_version, version_range.max_version)
         /\ STACVersionID_le(Coerce(version_range.min_version), version_range'.min_version)
         /\ STACVersionID_le(Coerce(version_range'.max_version), version_range.max_version)
       ]_vars
  /\ [](/\ STACVersionID_le(start_range.min_version, version_range.min_version)
        /\ STACVersionID_le(Coerce(version_range.max_version), start_range.max_version))

\* C3 witness: calls were made and both bounds moved strictly inward.
C3_Witness ==
  /\ history # <<>>
  /\ STACVersionID_lt(start_range.min_version, version_range.min_version)
  /\ STACVersionID_lt(Coerce(version_range.max_version), start_range.max_version)

----------------------------------------------------------------------------
(* SpecOrder: comparisons of STACVersionID values built from arbitrary strings *)

\* The length of the generated version strings.
MaxLen == 2

\* The characters of the generated version strings: '-', '0', '1'.
OrderAlphabet == {45, 48, 49}

\* Every string over OrderAlphabet of length at most MaxLen, and three released names.
VersionStrings ==
  UNION {[1..n -> OrderAlphabet] : n \in 0..MaxLen}
    \cup {V_1_0_0_beta_1, V_1_0_0_beta_2, V_1_0_0}

InitOrder ==
  /\ va \in VersionStrings /\ vb \in VersionStrings /\ vc \in VersionStrings
  /\ cmp = Idle
  /\ version_range = Idle /\ start_range = Idle /\ history = Idle
  /\ json_dict = Idle /\ description = Idle

\* STACVersionID(va) compared with the others; the right operand is passed as a
\* STACVersionID or as a str, which __lt__ and __eq__ coerce (type(other) is str).
Compare ==
  /\ cmp = Idle
  /\ LET a == STACVersionID(va)
         b == STACVersionID(vb)
         c == STACVersionID(vc)
     IN cmp' = [state |-> "done",
                lt_aa |-> STACVersionID_lt(a, a),
                lt_ab |-> STACVersionID_lt(a, Str(vb)),
                lt_ba |-> STACVersionID_lt(b, Str(va)),
                lt_bc |-> STACVersionID_lt(b, c),
                lt_ac |-> STACVersionID_lt(a, Str(vc)),
                eq_ab |-> STACVersionID_eq(a, Str(vb)),
                ne_ab |-> STACVersionID_ne(a, b),
                le_ab |-> STACVersionID_le(a, Str(vb)),
                gt_ab |-> STACVersionID_gt(a, b),
                ge_ab |-> STACVersionID_ge(a, Str(vb))]
  /\ UNCHANGED <<va, vb, vc, version_range, start_range, history, json_dict, description>>

NextOrder == Compare

SpecOrder == InitOrder /\ [][NextOrder]_vars

\* C4: < on STACVersionID is a strict total order consistent with equality of the full
\* version string: irreflexive, transitive, antisymmetric, and exactly one of
\* a < b, a == b, b < a holds.
C4_StrictTotalOrder ==
  cmp.state = "done" =>
    /\ ~cmp.lt_aa
    /\ (cmp.lt_ab /\ cmp.lt_bc) => cmp.lt_ac
    /\ ~(cmp.lt_ab /\ cmp.lt_ba)
    /\ cmp.eq_ab <=> (va = vb)
    /\ \/ cmp.lt_ab /\ ~cmp.eq_ab /\ ~cmp.lt_ba
       \/ ~cmp.lt_ab /\ cmp.eq_ab /\ ~cmp.lt_ba
       \/ ~cmp.lt_ab /\ ~cmp.eq_ab /\ cmp.lt_ba

\* C4 witness: a chain a < b < c through one core, ending at the version without a
\* prerelease, was compared.
C4_Witness ==
  /\ cmp.state = "done"
  /\ cmp.lt_ab /\ cmp.lt_bc /\ cmp.lt_ac
  /\ STACVersionID(va).version_core = STACVersionID(vc).version_core
  /\ STACVersionID(vb).version_core = STACVersionID(vc).version_core
  /\ STACVersionID(vc).version_prerelease = None

SameCoreBothPrerelease ==
  /\ STACVersionID(va).version_core = STACVersionID(vb).version_core
  /\ STACVersionID(va).version_prerelease # None
  /\ STACVersionID(vb).version_prerelease # None

\* C5 as stated: with equal cores and two prerelease suffixes, the version whose suffix
\* is lexicographically greater compares as the smaller one.  __lt__ (line 46) returns
\* other.version_prerelease > self.version_prerelease, the plain string order of the
\* suffixes, so '1.0.0-beta.2' < '1.0.0-beta.1' is False.
C5_Original ==
  (cmp.state = "done" /\ SameCoreBothPrerelease
    /\ StrLt(STACVersionID(vb).version_prerelease.str, STACVersionID(va).version_prerelease.str))
  => cmp.lt_ab

----------------------------------------------------------------------------
(* Extension identifiers, key prefixes and keys, as Python strings *)

\* 'assets'
EXT_ASSETS == <<97, 115, 115, 101, 116, 115>>
\* 'checksum'
EXT_CHECKSUM == <<99, 104, 101, 99, 107, 115, 117, 109>>
\* 'datacube'
EXT_DATACUBE == <<100, 97, 116, 97, 99, 117, 98, 101>>
\* 'datetime-range'
EXT_DATETIME_RANGE == <<100, 97, 116, 101, 116, 105, 109, 101, 45, 114, 97, 110, 103, 101>>
\* 'eo'
EXT_EO == <<101, 111>>
\* 'pointcloud'
EXT_POINTCLOUD == <<112, 111, 105, 110, 116, 99, 108, 111, 117, 100>>
\* 'sar'
EXT_SAR == <<115, 97, 114>>
\* 'scientific'
EXT_SCIENTIFIC == <<115, 99, 105, 101, 110, 116, 105, 102, 105, 99>>
\* 'single-file-stac'
EXT_SINGLE_FILE_STAC == <<115, 105, 110, 103, 108, 101, 45, 102, 105, 108, 101, 45, 115, 116, 97, 99>>
\* 'https://example.com/ext/schema.json'
EXT_CUSTOM_URI == <<104, 116, 116, 112, 115, 58, 47, 47, 101, 120, 97, 109, 112, 108, 101, 46, 99, 111, 109, 47, 101, 120, 116, 47, 115, 99, 104, 101, 109, 97, 46, 106, 115, 111, 110>>
\* 'checksum:'
PREFIX_CHECKSUM == <<99, 104, 101, 99, 107, 115, 117, 109, 58>>
\* 'cube:'
PREFIX_CUBE == <<99, 117, 98, 101, 58>>
\* 'eo:'
PREFIX_EO == <<101, 111, 58>>
\* 'pc:'
PREFIX_PC == <<112, 99, 58>>
\* 'sar:'
PREFIX_SAR == <<115, 97, 114, 58>>
\* 'sci:'
PREFIX_SCI == <<115, 99, 105, 58>>
\* '.json'
SUFFIX_JSON == <<46, 106, 115, 111, 110>>
\* 'rel'
K_rel == <<114, 101, 108>>
\* 'href'
K_href == <<104, 114, 101, 102>>
\* 'checksum:md5'
K_checksum_md5 == <<99, 104, 101, 99, 107, 115, 117, 109, 58, 109, 100, 53>>
\* 'dtr:start_datetime'
P_dtr_start_datetime == <<100, 116, 114, 58, 115, 116, 97, 114, 116, 95, 100, 97, 116, 101, 116, 105, 109, 101>>
\* 'eo:epsg'
P_eo_epsg == <<101, 111, 58, 101, 112, 115, 103>>
\* 'eo:crs'
P_eo_crs == <<101, 111, 58, 99, 114, 115>>
\* 'eo:constellation'
P_eo_constellation == <<101, 111, 58, 99, 111, 110, 115, 116, 101, 108, 108, 97, 116, 105, 111, 110>>
\* 'sar:absolute_orbit'
P_sar_absolute_orbit == <<115, 97, 114, 58, 97, 98, 115, 111, 108, 117, 116, 101, 95, 111, 114, 98, 105, 116>>
\* 'sar:resolution'
P_sar_resolution == <<115, 97, 114, 58, 114, 101, 115, 111, 108, 117, 116, 105, 111, 110>>
\* 'sar:pixel_spacing'
P_sar_pixel_spacing == <<115, 97, 114, 58, 112, 105, 120, 101, 108, 95, 115, 112, 97, 99, 105, 110, 103>>
\* 'sar:looks'
P_sar_looks == <<115, 97, 114, 58, 108, 111, 111, 107, 115>>
\* 'sar:incidence_angle'
P_sar_incidence_angle == <<115, 97, 114, 58, 105, 110, 99, 105, 100, 101, 110, 99, 101, 95, 97, 110, 103, 108, 101>>
\* 'sar:relative_orbit'
P_sar_relative_orbit == <<115, 97, 114, 58, 114, 101, 108, 97, 116, 105, 118, 101, 95, 111, 114, 98, 105, 116>>
\* 'sar:observation_direction'
P_sar_observation_direction == <<115, 97, 114, 58, 111, 98, 115, 101, 114, 118, 97, 116, 105, 111, 110, 95, 100, 105, 114, 101, 99, 116, 105, 111, 110>>
\* 'sar:resolution_range'
P_sar_resolution_range == <<115, 97, 114, 58, 114, 101, 115, 111, 108, 117, 116, 105, 111, 110, 95, 114, 97, 110, 103, 101>>
\* 'sar:resolution_azimuth'
P_sar_resolution_azimuth == <<115, 97, 114, 58, 114, 101, 115, 111, 108, 117, 116, 105, 111, 110, 95, 97, 122, 105, 109, 117, 116, 104>>
\* 'sar:pixel_spacing_range'
P_sar_pixel_spacing_range == <<115, 97, 114, 58, 112, 105, 120, 101, 108, 95, 115, 112, 97, 99, 105, 110, 103, 95, 114, 97, 110, 103, 101>>
\* 'sar:pixel_spacing_azimuth'
P_sar_pixel_spacing_azimuth == <<115, 97, 114, 58, 112, 105, 120, 101, 108, 95, 115, 112, 97, 99, 105, 110, 103, 95, 97, 122, 105, 109, 117, 116, 104>>
\* 'sar:looks_range'
P_sar_looks_range == <<115, 97, 114, 58, 108, 111, 111, 107, 115, 95, 114, 97, 110, 103, 101>>
\* 'sar:looks_azimuth'
P_sar_looks_azimuth == <<115, 97, 114, 58, 108, 111, 111, 107, 115, 95, 97, 122, 105, 109, 117, 116, 104>>
\* 'sar:looks_equivalent_number'
P_sar_looks_equivalent_number == <<115, 97, 114, 58, 108, 111, 111, 107, 115, 95, 101, 113, 117, 105, 118, 97, 108, 101, 110, 116, 95, 110, 117, 109, 98, 101, 114>>
\* 'sar:off_nadir'
P_sar_off_nadir == <<115, 97, 114, 58, 111, 102, 102, 95, 110, 97, 100, 105, 114>>
\* 'cube:dimensions'
P_cube_dimensions == <<99, 117, 98, 101, 58, 100, 105, 109, 101, 110, 115, 105, 111, 110, 115>>
\* 'pc:count'
P_pc_count == <<112, 99, 58, 99, 111, 117, 110, 116>>
\* 'sci:doi'
P_sci_doi == <<115, 99, 105, 58, 100, 111, 105>>
\* 'datetime'
P_datetime == <<100, 97, 116, 101, 116, 105, 109, 101>>

\* '/'
SLASH == 47

----------------------------------------------------------------------------
(* Documents.  A dict is a function whose DOMAIN is its key set, so that      *)
(* "k in d" is k \in DOMAIN d and d[k] outside the domain is a KeyError.      *)
(* A top-level key is a TLA+ string (only membership is tested on it); the    *)
(* keys of links, assets and properties are Python strings, since startswith  *)
(* is applied to them.  A property value is kept as its kind: "null",         *)
(* "scalar" or "list".                                                        *)

\* pystac.STACObjectType
CATALOG == "CATALOG"
COLLECTION == "COLLECTION"
ITEM == "ITEM"
ITEMCOLLECTION == "ITEMCOLLECTION"

\* any(k.startswith(prefix) for k in mapping)
AnyKeyStartsWith(mapping, prefix) == \E k \in DOMAIN mapping : StartsWith(k, prefix)

\* The accumulator threaded through the heuristics: the stac_extensions set, the
\* version_range being narrowed, and whether an exception has been raised.
Acc(ext, vr) == [raised |-> FALSE, error |-> "", stac_extensions |-> ext, version_range |-> vr]
Raise(acc, error) == [acc EXCEPT !.raised = TRUE, !.error = error]

\* lines 147-150: assets (collection assets)
HeuristicAssets(object_type, d, acc) ==
  IF object_type = ITEMCOLLECTION /\ "assets" \in DOMAIN d
  THEN Acc(acc.stac_extensions \cup {EXT_ASSETS},
           set_min(acc.version_range, STACVersionID(V_0_8_0)))
  ELSE acc

\* The key set of one entry met while iterating d['links']: iterating a dict yields
\* its keys (str), which are looked up again; iterating a list yields the links.
LinkProps(links) ==
  IF links.kind = "dict"
  THEN {DOMAIN links.items[name] : name \in DOMAIN links.items}
  ELSE {DOMAIN links.items[i] : i \in 1..Len(links.items)}

\* lines 153-173: checksum
HeuristicChecksum(d, acc) ==
  IF "links" \in DOMAIN d
  THEN LET in_links == \E link_props \in LinkProps(d["links"]) :
                         \E prop \in link_props : StartsWith(prop, PREFIX_CHECKSUM)
           in_assets == /\ ~in_links
                        /\ "assets" \in DOMAIN d
                        /\ \E name \in DOMAIN d["assets"] :
                             AnyKeyStartsWith(d["assets"][name], PREFIX_CHECKSUM)
           found_checksum == in_links \/ in_assets
       IN IF found_checksum
          THEN Acc(acc.stac_extensions \cup {EXT_CHECKSUM},
                   set_min(acc.version_range, STACVersionID(V_0_6_2)))
          ELSE acc
  ELSE acc

\* lines 176-179: datacube.  d['properties'] is read without a membership test.
HeuristicDatacube(object_type, d, acc) ==
  IF acc.raised \/ object_type # ITEM THEN acc
  ELSE IF "properties" \notin DOMAIN d THEN Raise(acc, "KeyError")
  ELSE IF AnyKeyStartsWith(d["properties"], PREFIX_CUBE)
       THEN Acc(acc.stac_extensions \cup {EXT_DATACUBE},
                set_min(acc.version_range, STACVersionID(V_0_6_1)))
       ELSE acc

\* lines 182-185: datetime-range (old extension)
HeuristicDatetimeRange(object_type, d, acc) ==
  IF acc.raised \/ object_type # ITEM THEN acc
  ELSE IF "properties" \notin DOMAIN d THEN Raise(acc, "KeyError")
  ELSE IF P_dtr_start_datetime \in DOMAIN d["properties"]
       THEN Acc(acc.stac_extensions \cup {EXT_DATETIME_RANGE},
                set_min(acc.version_range, STACVersionID(V_0_6_0)))
       ELSE acc

\* "if cond: version_range.set_min(v)" and "if cond: version_range.set_max(v)"
SetMinIf(cond, vr, v) == IF cond THEN set_min(vr, STACVersionID(v)) ELSE vr
SetMaxIf(cond, vr, v) == IF cond THEN set_max(vr, STACVersionID(v)) ELSE vr

\* lines 188-200: eo
HeuristicEO(object_type, d, acc) ==
  IF acc.raised \/ object_type # ITEM THEN acc
  ELSE IF "properties" \notin DOMAIN d THEN Raise(acc, "KeyError")
  ELSE
    LET props == d["properties"]
        has_eo == AnyKeyStartsWith(props, PREFIX_EO)
        vr1 == SetMinIf(has_eo /\ P_eo_epsg \in DOMAIN props /\ props[P_eo_epsg] = "null",
                        acc.version_range, V_0_6_1)
        vr2 == SetMaxIf(has_eo /\ P_eo_crs \in DOMAIN props, vr1, V_0_4_1)
        vr3 == SetMinIf(has_eo /\ P_eo_constellation \in DOMAIN props, vr2, V_0_6_0)
        vr4 == SetMaxIf("eo:bands" \in DOMAIN d, vr3, V_0_5_2)
    IN Acc(IF has_eo \/ "eo:bands" \in DOMAIN d
           THEN acc.stac_extensions \cup {EXT_EO} ELSE acc.stac_extensions,
           vr4)

\* lines 203-206: pointcloud
HeuristicPointcloud(object_type, d, acc) ==
  IF acc.raised \/ object_type # ITEM THEN acc
  ELSE IF "properties" \notin DOMAIN d THEN Raise(acc, "KeyError")
  ELSE IF AnyKeyStartsWith(d["properties"], PREFIX_PC)
       THEN Acc(acc.stac_extensions \cup {EXT_POINTCLOUD},
                set_min(acc.version_range, STACVersionID(V_0_6_2)))
       ELSE acc

\* lines 214-216: the SAR properties that held a list up to 0.6.2
SarListProps ==
  <<P_sar_absolute_orbit, P_sar_resolution, P_sar_pixel_spacing, P_sar_looks>>

\* lines 221-226: the SAR properties introduced in 0.7.0
SarNewProps ==
  <<P_sar_incidence_angle, P_sar_relative_orbit, P_sar_observation_direction,
    P_sar_resolution_range, P_sar_resolution_azimuth, P_sar_pixel_spacing_range,
    P_sar_pixel_spacing_azimuth, P_sar_looks_range, P_sar_looks_azimuth,
    P_sar_looks_equivalent_number>>

\* lines 214-219: for prop in [...]: a list value lowers the maximum to 0.6.2
RECURSIVE SarListLoop(_, _, _)
SarListLoop(names, props, vr) ==
  IF names = <<>> THEN vr
  ELSE SarListLoop(Tail(names), props,
         SetMaxIf(Head(names) \in DOMAIN props /\ props[Head(names)] = "list", vr, V_0_6_2))

\* lines 221-228: for prop in [...]: a present property raises the minimum to 0.7.0
RECURSIVE SarNewLoop(_, _, _)
SarNewLoop(names, props, vr) ==
  IF names = <<>> THEN vr
  ELSE SarNewLoop(Tail(names), props, SetMinIf(Head(names) \in DOMAIN props, vr, V_0_7_0))

\* lines 213-219: if version_range.contains('0.6.2'): the first loop
SarIfContains062(props, vr) ==
  IF contains(vr, Str(V_0_6_2)) THEN SarListLoop(SarListProps, props, vr) ELSE vr

\* lines 220-231: if version_range.contains('0.7.0'): the second loop, then
\* 'sar:absolute_orbit' present and not a list
SarIfContains070(props, vr) ==
  IF contains(vr, Str(V_0_7_0))
  THEN SetMinIf(/\ P_sar_absolute_orbit \in DOMAIN props
                /\ props[P_sar_absolute_orbit] # "list",
                SarNewLoop(SarNewProps, props, vr), V_0_7_0)
  ELSE vr

\* lines 209-233: sar
HeuristicSAR(object_type, d, acc) ==
  IF acc.raised \/ object_type # ITEM THEN acc
  ELSE IF "properties" \notin DOMAIN d THEN Raise(acc, "KeyError")
  ELSE IF ~AnyKeyStartsWith(d["properties"], PREFIX_SAR) THEN acc
  ELSE
    LET props == d["properties"]
        vr1 == set_min(acc.version_range, STACVersionID(V_0_6_2))
        vr2 == SarIfContains062(props, vr1)
        vr3 == SarIfContains070(props, vr2)
        vr4 == SetMaxIf(P_sar_off_nadir \in DOMAIN props, vr3, V_0_6_2)
    IN Acc(acc.stac_extensions \cup {EXT_SAR}, vr4)

\* lines 236-241: scientific
HeuristicScientific(object_type, d, acc) ==
  IF acc.raised THEN acc
  ELSE IF /\ object_type \in {ITEM, COLLECTION}
          /\ "properties" \in DOMAIN d
          /\ AnyKeyStartsWith(d["properties"], PREFIX_SCI)
       THEN Acc(acc.stac_extensions \cup {EXT_SCIENTIFIC},
                set_min(acc.version_range, STACVersionID(V_0_6_0)))
       ELSE acc

\* lines 244-249: Single File STAC
HeuristicSingleFileSTAC(object_type, d, acc) ==
  IF acc.raised THEN acc
  ELSE IF object_type = ITEMCOLLECTION /\ "collections" \in DOMAIN d
       THEN LET vr1 == set_min(acc.version_range, STACVersionID(V_0_8_0))
                vr2 == IF "stac_extensions" \notin DOMAIN d
                       THEN set_max(vr1, STACVersionID(V_0_8_1)) ELSE vr1
            IN Acc(acc.stac_extensions \cup {EXT_SINGLE_FILE_STAC}, vr2)
       ELSE acc

\* _identify_stac_extensions: the heuristics in source order.  The result carries the
\* set of extensions found and the narrowed version_range, or the exception raised.
identify_stac_extensions(object_type, d, vr) ==
  LET a0 == Acc({}, vr)
      a1 == HeuristicAssets(object_type, d, a0)
      a2 == HeuristicChecksum(d, a1)
      a3 == HeuristicDatacube(object_type, d, a2)
      a4 == HeuristicDatetimeRange(object_type, d, a3)
      a5 == HeuristicEO(object_type, d, a4)
      a6 == HeuristicPointcloud(object_type, d, a5)
      a7 == HeuristicSAR(object_type, d, a6)
      a8 == HeuristicScientific(object_type, d, a7)
      a9 == HeuristicSingleFileSTAC(object_type, d, a8)
  IN a9

\* Custom extensions are a URI: ext.endswith('.json') or '/' in ext
IsCustomExtension(ext) == EndsWith(ext, SUFFIX_JSON) \/ Contains(ext, SLASH)

\* _split_extensions: both lists keep the order of stac_extensions
split_extensions(stac_extensions) ==
  [common_extensions |-> SelectSeq(stac_extensions, LAMBDA ext : ~IsCustomExtension(ext)),
   custom_extensions |-> SelectSeq(stac_extensions, IsCustomExtension)]

\* lines 281-284: the pre-1.0 ITEMCOLLECTION guess.  startswith is called on the value
\* of 'stac_version' as soon as 'type' is present, 'assets' is absent and the key is
\* present: on None it raises AttributeError.
TentativeObjectType(json) ==
  IF "type" \in DOMAIN json /\ "assets" \notin DOMAIN json /\ "stac_version" \in DOMAIN json
  THEN IF IsNone(json["stac_version"]) THEN "AttributeError"
       ELSE IF /\ StartsWith(json["stac_version"].str, <<48>>)
               /\ json["type"] = "FeatureCollection"
            THEN ITEMCOLLECTION
            ELSE "None"
  ELSE "None"

\* identify_stac_object_type: the guess of lines 281-284 is assigned first and then
\* overwritten by the if/elif/else of lines 286-291.  The result is the object type
\* returned, or the exception raised.
identify_stac_object_type(json) ==
  IF TentativeObjectType(json) = "AttributeError"
  THEN [raised |-> TRUE, error |-> "AttributeError", object_type |-> "None"]
  ELSE [raised |-> FALSE, error |-> "",
        object_type |-> IF "extent" \in DOMAIN json THEN COLLECTION
                        ELSE IF "assets" \in DOMAIN json THEN ITEM
                        ELSE CATALOG]

\* lines 310, 313-322: the declared stac_version, passed to set_to_single as the str
\* the document holds, or, when the key is absent or holds None, the default bound of
\* the object type
DeclaredVersion(object_type, json, vr) ==
  IF IsNone(Get(json, "stac_version"))
  THEN IF object_type \in {CATALOG, COLLECTION} THEN set_max(vr, STACVersionID(V_0_5_2))
       ELSE IF object_type = ITEM THEN set_max(vr, STACVersionID(V_0_7_0))
       ELSE set_min(vr, STACVersionID(V_0_8_0))
  ELSE set_to_single(vr, json["stac_version"])

\* A slip of lines 324-325: the stac_extensions field leaves the range alone.
ExtensionsField_ignored(json, vr) == vr

\* lines 311, 324-325: a stac_extensions value other than None raises the minimum to
\* 0.8.0
ExtensionsField(json, vr) ==
  IF ~IsNone(Get(json, "stac_extensions"))
  THEN set_min(vr, STACVersionID(V_0_8_0))
  ELSE vr

\* lines 311, 324-337: stac_extensions is the declared list, or, when the key is absent
\* or holds None, the set the heuristics find (with the range they narrow, or the
\* exception they raise), or empty.
ExtensionsOf(object_type, json, vr) ==
  IF ~IsNone(Get(json, "stac_extensions"))
  THEN Acc(json["stac_extensions"].list, vr)
  ELSE IF \/ is_earlier_than(vr, Str(V_0_8_0))
          \/ /\ object_type = ITEMCOLLECTION
             /\ ~is_later_than(vr, Str(V_0_8_1))
       THEN identify_stac_extensions(object_type, json, vr)
       ELSE Acc({}, vr)

\* lines 308-337: identify_stac_object from the object type up to the final checks
AfterObjectType(json, object_type) ==
  [object_type |-> object_type,
   declared |-> ~IsNone(Get(json, "stac_extensions")),
   acc |-> ExtensionsOf(object_type, json,
             ExtensionsField(json,
               DeclaredVersion(object_type, json, DefaultSTACVersionRange)))]

\* lines 306-337: identify_stac_object up to the final checks; an exception raised by
\* identify_stac_object_type ends it at line 306
BeforeFinalChecks(json) ==
  IF identify_stac_object_type(json).raised
  THEN [object_type |-> "None", declared |-> FALSE,
        acc |-> Raise(Acc({}, DefaultSTACVersionRange), identify_stac_object_type(json).error)]
  ELSE AfterObjectType(json, identify_stac_object_type(json).object_type)

\* lines 349-350: any(filter(lambda l: l['rel'] == 'self', json_dict['links'])) over a
\* list of links, left to right: "raise" when a link without 'rel' is met first.
RECURSIVE AnySelfLink(_)
AnySelfLink(items) ==
  IF items = <<>> THEN "False"
  ELSE IF K_rel \notin DOMAIN Head(items) THEN "raise"
  ELSE IF Head(items)[K_rel] = "self" THEN "True"
  ELSE AnySelfLink(Tail(items))

\* lines 349-350 on links given as a dict: iterating yields its keys, and l['rel'] on
\* a str raises; on a list, AnySelfLink.
SelfLink(links) ==
  IF links.kind = "dict"
  THEN IF DOMAIN links.items = {} THEN "False" ELSE "raise"
  ELSE AnySelfLink(links.items)

\* lines 347-351: self links became non-required in 0.7.0
SelfLinkCheck(json, vr) ==
  IF is_earlier_than(vr, Str(V_0_7_0)) \/ SelfLink(json["links"]) = "True"
  THEN [raised |-> FALSE, error |-> "", version_range |-> vr]
  ELSE IF SelfLink(json["links"]) = "raise"
  THEN [raised |-> TRUE,
        error |-> IF json["links"].kind = "dict" THEN "TypeError" ELSE "KeyError",
        version_range |-> vr]
  ELSE [raised |-> FALSE, error |-> "",
        version_range |-> set_min(vr, STACVersionID(V_0_7_0))]

\* A slip of the final checks: links given as a mapping do not pin the range.
FinalChecks_no_pin(json, vr) ==
  IF is_single_version(vr) \/ "links" \notin DOMAIN json
  THEN [raised |-> FALSE, error |-> "", version_range |-> vr]
  ELSE SelfLinkCheck(json, vr)

\* lines 339-351: the final checks
FinalChecks(json, vr) ==
  IF is_single_version(vr) \/ "links" \notin DOMAIN json
  THEN [raised |-> FALSE, error |-> "", version_range |-> vr]
  ELSE SelfLinkCheck(json,
         IF json["links"].kind = "dict"
         THEN set_to_single(vr, STACVersionID(V_0_5_2))
         ELSE vr)

\* list(stac_extensions) of a set: the order is that of the set's iteration, which the
\* language leaves open; every order is a possible outcome.
ListsOf(S) == {l \in [1..Cardinality(S) -> S] : \A i, j \in 1..Cardinality(S) : l[i] = l[j] => i = j}

\* lines 353-354: the returned STACJSONDescription, one for each order of the
\* extensions, or the exception the final checks raised
Describe(before, final) ==
  IF final.raised
  THEN {[state |-> "raised", error |-> final.error]}
  ELSE {[state |-> "returned",
         object_type |-> before.object_type,
         version_range |-> final.version_range,
         common_extensions |-> split_extensions(l).common_extensions,
         custom_extensions |-> split_extensions(l).custom_extensions] :
        l \in IF before.declared THEN {before.acc.stac_extensions}
              ELSE ListsOf(before.acc.stac_extensions)}

\* identify_stac_object after line 337
AfterExtensions(json, before) ==
  IF before.acc.raised
  THEN {[state |-> "raised", error |-> before.acc.error]}
  ELSE Describe(before, FinalChecks(json, before.acc.version_range))

\* identify_stac_object: the set of its possible outcomes on json, each either the
\* STACJSONDescription returned or the exception raised.
identify_stac_object(json) == AfterExtensions(json, BeforeFinalChecks(json))

----------------------------------------------------------------------------
(* SpecIdentify: identify_stac_object_type and identify_stac_object on documents *)

\* The number of keys in a document's 'properties'.
MaxProps == 1

EmptyDict == [k \in {} |-> k]

\* A field that is absent, or present with one of the values.
Optional(key, values) == {EmptyDict} \cup {key :> v : v \in values}

\* 'type', and 'collections' beside a FeatureCollection
TypeShapes ==
  {EmptyDict, ("type" :> "FeatureCollection") @@ ("collections" :> "list")}

\* The values of 'stac_version': null, and versions below the floor, before 0.8.0, a
\* prerelease after 0.8.0, above the default.
DeclaredVersions == {None} \cup {Str(v) : v \in {V_0_3_0, V_0_6_0, V_1_0_0_beta_1, V_1_1_0}}

\* The values of 'stac_extensions': null, and a list.
DeclaredExtensions == {None, List(<<EXT_EO, EXT_CUSTOM_URI, EXT_CHECKSUM>>)}

ASelfLink == (K_rel :> "self") @@ (K_href :> "scalar")
RootLink == (K_rel :> "root") @@ (K_href :> "scalar")
RootChecksumLink == RootLink @@ (K_checksum_md5 :> "scalar")

LinksValues ==
  {[kind |-> "list", items |-> <<RootLink>>],
   [kind |-> "list", items |-> <<RootChecksumLink, ASelfLink>>],
   [kind |-> "dict", items |-> ("self" :> ASelfLink)],
   [kind |-> "dict", items |-> ("root" :> RootChecksumLink)]}

AssetsValues ==
  {"thumbnail" :> (K_href :> "scalar"),
   "data" :> ((K_href :> "scalar") @@ (K_checksum_md5 :> "scalar"))}

\* The property keys documents are built from, and the kinds of value each is given.
InputPropKeys ==
  {P_cube_dimensions, P_dtr_start_datetime, P_eo_epsg, P_eo_crs, P_eo_constellation,
   P_pc_count, P_sar_absolute_orbit, P_sar_incidence_angle,
   P_sar_off_nadir, P_sci_doi, P_datetime}

ValueKinds(key) ==
  IF key = P_eo_epsg THEN {"null", "scalar"}
  ELSE IF key = P_sar_absolute_orbit THEN {"list", "scalar"}
  ELSE {"scalar"}

PropertiesValues ==
  UNION {{props \in [keys -> {"null", "scalar", "list"}] :
            \A k \in keys : props[k] \in ValueKinds(k)} :
         keys \in {ks \in SUBSET InputPropKeys : Cardinality(ks) <= MaxProps}}

Documents ==
  {t @@ sv @@ se @@ ex @@ a @@ l @@ p @@ eb :
     t \in TypeShapes,
     sv \in Optional("stac_version", DeclaredVersions),
     se \in Optional("stac_extensions", DeclaredExtensions),
     ex \in Optional("extent", {"dict"}),
     a \in Optional("assets", AssetsValues),
     l \in Optional("links", LinksValues),
     p \in Optional("properties", PropertiesValues),
     eb \in Optional("eo:bands", {"list"})}

InitIdentify ==
  /\ json_dict \in Documents
  /\ description = Idle
  /\ version_range = Idle /\ start_range = Idle /\ history = Idle
  /\ va = Idle /\ vb = Idle /\ vc = Idle /\ cmp = Idle

IdentifyStacObjectType ==
  /\ description.state = "idle"
  /\ description' = IF identify_stac_object_type(json_dict).raised
                    THEN [state |-> "type raised",
                          error |-> identify_stac_object_type(json_dict).error]
                    ELSE [state |-> "type",
                          object_type |-> identify_stac_object_type(json_dict).object_type]
  /\ UNCHANGED <<json_dict, version_range, start_range, history, va, vb, vc, cmp>>

IdentifyStacObject ==
  /\ description.state = "idle"
  /\ description' \in identify_stac_object(json_dict)
  /\ UNCHANGED <<json_dict, version_range, start_range, history, va, vb, vc, cmp>>

NextIdentify ==
  \/ IdentifyStacObjectType
  \/ IdentifyStacObject

SpecIdentify == InitIdentify /\ [][NextIdentify]_vars

Finished == description.state \in {"returned", "raised"}
Returned == description.state = "returned"

\* The document declares a version: 'stac_version' holds a value other than None.
DeclaresVersion == ~IsNone(Get(json_dict, "stac_version"))

\* The document declares its extensions: 'stac_extensions' holds a value other than None.
DeclaresExtensions == ~IsNone(Get(json_dict, "stac_extensions"))

\* C6: for every document, identify_stac_object_type returns COLLECTION if 'extent' is
\* present, otherwise ITEM if 'assets' is present, otherwise CATALOG, and never
\* ITEMCOLLECTION, whatever 'type' and 'stac_version' hold; so identify_stac_object
\* never takes an ITEMCOLLECTION branch, and the heuristics never report 'assets' or
\* 'single-file-stac'.
C6_ObjectType ==
  /\ description.state # "type raised"
  /\ description.state \in {"type", "returned"} =>
       /\ description.object_type =
            (IF "extent" \in DOMAIN json_dict THEN COLLECTION
             ELSE IF "assets" \in DOMAIN json_dict THEN ITEM
             ELSE CATALOG)
       /\ description.object_type # ITEMCOLLECTION
  /\ (Returned /\ ~DeclaresExtensions) =>
       \A i \in 1..Len(description.common_extensions) :
         description.common_extensions[i] \notin {EXT_ASSETS, EXT_SINGLE_FILE_STAC}

\* The declared version clamped into the default range [0.4.0, DEFAULT_STAC_VERSION].
ClampedDeclared(v) ==
  IF STACVersionID_lt(STACVersionID(v), STACVersionID(V_0_4_0)) THEN V_0_4_0
  ELSE IF STACVersionID_lt(STACVersionID(DEFAULT_STAC_VERSION), STACVersionID(v))
       THEN DEFAULT_STAC_VERSION
  ELSE v

\* C7 as stated: a 'stac_version' field with value v pins the returned range to v,
\* whatever v is.
C7_Original ==
  (Returned /\ "stac_version" \in DOMAIN json_dict) =>
    /\ DeclaresVersion
    /\ ToStr(description.version_range.min_version) = json_dict["stac_version"].str
    /\ ToStr(description.version_range.max_version) = json_dict["stac_version"].str

\* C7 amended: a 'stac_version' field with a value v other than null pins the returned
\* range to v when v lies inside [0.4.0, DEFAULT_STAC_VERSION]; a v below 0.4.0 pins it
\* to 0.4.0 and a v above DEFAULT_STAC_VERSION pins it to DEFAULT_STAC_VERSION.
C7_PinnedToDeclared ==
  (Returned /\ DeclaresVersion) =>
    /\ ToStr(description.version_range.min_version)
         = ClampedDeclared(json_dict["stac_version"].str)
    /\ ToStr(description.version_range.max_version)
         = ClampedDeclared(json_dict["stac_version"].str)
    /\ is_single_version(description.version_range)

\* C7 witness: a document declaring '1.0.0-beta.1' was identified and both bounds of
\* its range are the str '1.0.0-beta.1' it declared.
C7_Witness ==
  /\ Returned
  /\ DeclaresVersion /\ json_dict["stac_version"] = Str(V_1_0_0_beta_1)
  /\ description.version_range =
       [min_version |-> Str(V_1_0_0_beta_1), max_version |-> Str(V_1_0_0_beta_1)]

\* The final checks run on json_dict, which declares no version, and find its links
\* given as a mapping.
FinalChecksOnLinksMapping ==
  /\ Finished
  /\ ~DeclaresVersion
  /\ "links" \in DOMAIN json_dict /\ json_dict["links"].kind = "dict"
  /\ ~BeforeFinalChecks(json_dict).acc.raised
  /\ ~is_single_version(BeforeFinalChecks(json_dict).acc.version_range)

\* '0.5.2' clamped into the range r.
Clamped052(r) ==
  IF Py_lt(STACVersionID(V_0_5_2), r.min_version) THEN r.min_version
  ELSE IF Py_lt(r.max_version, STACVersionID(V_0_5_2)) THEN r.max_version
  ELSE STACVersionID(V_0_5_2)

\* C8 as stated: without a declared version, links given as a mapping make the final
\* checks return exactly 0.5.2, whatever the heuristics did before.
C8_Original ==
  FinalChecksOnLinksMapping =>
    /\ Returned
    /\ description.version_range = STACVersionRange(Str(V_0_5_2), Str(V_0_5_2))

\* C8 amended: without a declared version, links given as a mapping make the final
\* checks return a single version: 0.5.2 when the range the heuristics left contains
\* 0.5.2, otherwise the bound of that range nearest to 0.5.2.
C8_LinksMappingPins ==
  FinalChecksOnLinksMapping =>
    /\ Returned
    /\ description.version_range.min_version
         = Clamped052(BeforeFinalChecks(json_dict).acc.version_range)
    /\ description.version_range.max_version
         = Clamped052(BeforeFinalChecks(json_dict).acc.version_range)

\* C8 witness: the final checks pinned a document with links as a mapping to 0.5.2.
C8_Witness ==
  /\ FinalChecksOnLinksMapping
  /\ Returned
  /\ description.version_range = STACVersionRange(Str(V_0_5_2), Str(V_0_5_2))

\* C9: identify_stac_object returns a descriptor for a document classified as ITEM
\* that has no 'properties', no 'stac_version' and no 'stac_extensions': the property
\* checks are skipped and no error is raised.
C9_Total ==
  (/\ Finished
   /\ "assets" \in DOMAIN json_dict /\ "extent" \notin DOMAIN json_dict
   /\ "properties" \notin DOMAIN json_dict
   /\ "stac_version" \notin DOMAIN json_dict
   /\ "stac_extensions" \notin DOMAIN json_dict)
  => Returned

\* C10 as stated: a stac_extensions field, whatever its content, makes the returned
\* minimum at least 0.8.0.
C10_Original ==
  (Returned /\ "stac_extensions" \in DOMAIN json_dict) =>
    /\ Py_ge(description.version_range.min_version, Str(V_0_8_0))
    /\ STACVersionID_ge(Coerce(description.version_range.min_version), Str(V_0_8_0))

\* C10 amended: with a stac_extensions field whose value is not null, the returned
\* minimum is at least 0.8.0 when the declared stac_version is at least 0.8.0; when
\* the declared version is below 0.8.0, or none is declared, the minimum is clamped at
\* the maximum: min_version == max_version < 0.8.0.
C10_ExtensionsFieldMin ==
  (Returned /\ DeclaresExtensions) =>
    IF /\ DeclaresVersion
       /\ STACVersionID_ge(STACVersionID(json_dict["stac_version"].str), Str(V_0_8_0))
    THEN /\ Py_ge(description.version_range.min_version, Str(V_0_8_0))
         /\ STACVersionID_ge(Coerce(description.version_range.min_version), Str(V_0_8_0))
    ELSE /\ description.version_range.min_version = description.version_range.max_version
         /\ STACVersionID_lt(Coerce(description.version_range.max_version), Str(V_0_8_0))

\* C10 witness: a document with a stac_extensions list and no declared version was
\* identified and its minimum was raised up to its maximum.
C10_Witness ==
  /\ Returned
  /\ DeclaresExtensions
  /\ ~DeclaresVersion
  /\ description.version_range.min_version = description.version_range.max_version
  /\ Py_lt(STACVersionID(V_0_4_0), description.version_range.min_version)

====
